---- MODULE Spec2Model ----
(***************************************************************************)
(* svd2rust: the device assembler (src/generate/device.rs) and the generic *)
(* register facade (src/generate/generic.rs).                              *)
(*                                                                         *)
(* Three state machines share this module:                                 *)
(*   SpecTake   - the emitted Peripherals::take / Peripherals::steal and   *)
(*                the DEVICE_PERIPHERALS flag, run by a main context and   *)
(*                by preempting interrupt handlers;                        *)
(*   SpecReg    - Reg<U, REG>: read, reset, write, write_with_zero, modify *)
(*                on one volatile cell, with an interrupt that stores to   *)
(*                the same register;                                       *)
(*   SpecRender - device::render, statement by statement.                  *)
(***************************************************************************)
EXTENDS Integers, Sequences, FiniteSets

VARIABLES
    \* ---- SpecTake and SpecRender ----
    target,              \* Target: "CortexM", "Msp430", "RISCV", "None"
    \* ---- SpecTake ----
    DEVICE_PERIPHERALS,  \* static mut DEVICE_PERIPHERALS: bool
    primask,             \* TRUE while interrupts are masked (interrupt::free)
    stack,               \* execution contexts, the running one last
    pc,                  \* per context: where it stands in take / steal
    ret,                 \* per context: what its current call returned
    preempted,           \* per context: an interrupt fired during its call
    history,             \* the completed calls, in the order they finished
    \* ---- SpecReg ----
    marks,               \* which of Readable, Writable, ResetValue Reg implements
    RESET_VALUE,         \* ResetValue::RESET_VALUE (0 when not implemented)
    register,            \* Reg::register, the volatile cell
    rpc,                 \* "idle", or "modify" between modify's load and store
    bits,                \* modify's local `bits`
    closure,             \* the closure f of the operation last started
    lastOp,              \* the operation last started
    trace,               \* volatile accesses of that operation, in order
    pre,                 \* content of the cell when that operation started
    rdSeed,              \* bits of the Reader handed to f (modify)
    wrSeed,              \* bits of the Writer handed to f
    stored,              \* what that operation stored into the cell
    irqBetween,          \* an interrupt stored between modify's load and store
    irqVal,              \* what that interrupt stored
    \* ---- SpecRender ----
    d,                   \* the Device: [cpu, peripherals]
    generic_mod,
    conditional,
    device_x,            \* the caller's linker-fragment string, as lines
    step,                \* position in render
    idx,                 \* index of the peripheral the loop is at
    tokens,              \* output.tokens, as item tags
    features,            \* output.features
    fields,              \* fields of the emitted Peripherals struct
    exprs,               \* field initialisers of the emitted steal
    generic_rs,          \* TRUE once File::create("generic.rs") has run
    result               \* "none" while running, then "Ok" or "Err"

takeVars   == <<DEVICE_PERIPHERALS, primask, stack, pc, ret, preempted, history>>
regVars    == <<marks, RESET_VALUE, register, rpc, bits, closure, lastOp, trace,
                pre, rdSeed, wrSeed, stored, irqBetween, irqVal>>
renderVars == <<d, generic_mod, conditional, device_x, step, idx, tokens,
                features, fields, exprs, generic_rs, result>>
vars       == <<target, takeVars, regVars, renderVars>>
notTake    == <<target, regVars, renderVars>>
notReg     == <<target, takeVars, renderVars>>
notRender  == <<takeVars, regVars>>

(***************************************************************************)
(* Bounds                                                                  *)
(***************************************************************************)
NumIrq   == 2    \* interrupt handlers, priorities 1..NumIrq, above main (0)
MaxCalls == 3    \* completed calls of take / steal recorded in history
Width    == 2    \* bits of the register's backing type U
MaxPeriph == 2   \* peripherals of the device

Targets == {"CortexM", "Msp430", "RISCV", "None"}

(***************************************************************************)
(* Idle values of the variables a specification does not use               *)
(***************************************************************************)
TakeIdle ==
    /\ DEVICE_PERIPHERALS = FALSE
    /\ primask = FALSE
    /\ stack = <<0>>
    /\ pc = [c \in 0..NumIrq |-> "idle"]
    /\ ret = [c \in 0..NumIrq |-> "none"]
    /\ preempted = [c \in 0..NumIrq |-> FALSE]
    /\ history = <<>>

RegIdle ==
    /\ marks = {}
    /\ RESET_VALUE = 0
    /\ register = 0
    /\ rpc = "idle"
    /\ bits = 0
    /\ closure = [kind |-> "keep", k |-> 0]
    /\ lastOp = "none"
    /\ trace = <<>>
    /\ pre = 0
    /\ rdSeed = 0
    /\ wrSeed = 0
    /\ stored = 0
    /\ irqBetween = FALSE
    /\ irqVal = 0

RenderIdle ==
    /\ d = [cpu |-> "none", peripherals |-> <<>>]
    /\ generic_mod = FALSE
    /\ conditional = FALSE
    /\ device_x = <<>>
    /\ step = "start"
    /\ idx = 1
    /\ tokens = <<>>
    /\ features = <<>>
    /\ fields = <<>>
    /\ exprs = <<>>
    /\ generic_rs = FALSE
    /\ result = "none"

(***************************************************************************)
(* Peripherals::take and Peripherals::steal (emitted by device::render)    *)
(***************************************************************************)
Ctx == 0..NumIrq

\* The crate whose interrupt::free guards take; "none": take is not emitted.
krate(t) ==
    CASE t = "CortexM" -> "cortex_m"
      [] t = "Msp430"  -> "msp430"
      [] t = "RISCV"   -> "riscv"
      [] OTHER         -> "none"

Running == stack[Len(stack)]

\* Calls started and not yet recorded in history (a fired handler makes one call).
Pending == {c \in Ctx : pc[c] \notin {"idle", "ret"}}

Budget == Len(history) + Cardinality(Pending) < MaxCalls

\* static mut DEVICE_PERIPHERALS: bool = false
TakeInit ==
    /\ target \in Targets
    /\ TakeIdle

\* An interrupt of higher priority preempts the running context, unless
\* masked; its handler makes one call of take or steal.
irq_fire(k) ==
    /\ k \in 1..NumIrq
    /\ pc[k] = "idle"
    /\ k > Running
    /\ ~primask
    /\ Budget
    /\ stack' = Append(stack, k)
    /\ pc' = [pc EXCEPT ![k] = "entry"]
    /\ ret' = [ret EXCEPT ![k] = "none"]
    /\ preempted' = [c \in Ctx |->
                        IF c = k THEN FALSE
                        ELSE preempted[c] \/ (c \in Pending)]
    /\ UNCHANGED <<DEVICE_PERIPHERALS, primask, history, notTake>>

\* The handler returns to the context it preempted.
irq_return(k) ==
    /\ k \in 1..NumIrq
    /\ Running = k
    /\ pc[k] = "ret"
    /\ stack' = SubSeq(stack, 1, Len(stack) - 1)
    /\ pc' = [pc EXCEPT ![k] = "idle"]
    /\ UNCHANGED <<DEVICE_PERIPHERALS, primask, ret, preempted, history, notTake>>

CanCall(c) ==
    /\ Running = c
    /\ \/ c = 0 /\ pc[c] \in {"idle", "ret"} /\ Budget
       \/ c # 0 /\ pc[c] = "entry"

\* pub fn take() -> Option<Self>: the call, before interrupt::free is entered.
take_call(c) ==
    /\ krate(target) # "none"
    /\ CanCall(c)
    /\ pc' = [pc EXCEPT ![c] = "take"]
    /\ ret' = [ret EXCEPT ![c] = "none"]
    /\ preempted' = [preempted EXCEPT ![c] = FALSE]
    /\ UNCHANGED <<DEVICE_PERIPHERALS, primask, stack, history, notTake>>

\* (Faulty variant: the closure runs with the mask as it was.)
FreeLeavesMask == primask

\* What interrupt::free makes of the interrupt mask on entry.
FreeMasks == TRUE

\* #krate::interrupt::free(|_| { ... }): interrupts are masked.
take_enter(c) ==
    /\ Running = c
    /\ pc[c] = "take"
    /\ primask' = FreeMasks
    /\ pc' = [pc EXCEPT ![c] = "cs"]
    /\ UNCHANGED <<DEVICE_PERIPHERALS, stack, ret, preempted, history, notTake>>

\* if unsafe { DEVICE_PERIPHERALS } { None } else { ... }
take_check(c) ==
    /\ Running = c
    /\ pc[c] = "cs"
    /\ IF DEVICE_PERIPHERALS
         THEN /\ ret' = [ret EXCEPT ![c] = "None"]
              /\ pc' = [pc EXCEPT ![c] = "cs_exit"]
         ELSE /\ ret' = ret
              /\ pc' = [pc EXCEPT ![c] = "cs_steal"]
    /\ UNCHANGED <<DEVICE_PERIPHERALS, primask, stack, preempted, history, notTake>>

\* (Faulty variant: steal leaves the flag as it was.)
StealLeavesFlag == DEVICE_PERIPHERALS

\* DEVICE_PERIPHERALS = true;
StealFlag == TRUE

\* Some(unsafe { Peripherals::steal() })
take_steal(c) ==
    /\ Running = c
    /\ pc[c] = "cs_steal"
    /\ DEVICE_PERIPHERALS' = StealFlag
    /\ ret' = [ret EXCEPT ![c] = "Some"]
    /\ pc' = [pc EXCEPT ![c] = "cs_exit"]
    /\ UNCHANGED <<primask, stack, preempted, history, notTake>>

\* interrupt::free returns the closure's value and restores the interrupt
\* mask it found; take is the only code that masks, so it found it clear.
take_exit(c) ==
    /\ Running = c
    /\ pc[c] = "cs_exit"
    /\ primask' = FALSE
    /\ pc' = [pc EXCEPT ![c] = "ret"]
    /\ history' = Append(history, [op |-> "take", ret |-> ret[c], ctx |-> c,
                                   preempted |-> preempted[c]])
    /\ UNCHANGED <<DEVICE_PERIPHERALS, stack, ret, preempted, notTake>>

\* pub unsafe fn steal() -> Self, called directly.
steal(c) ==
    /\ CanCall(c)
    /\ DEVICE_PERIPHERALS' = StealFlag
    /\ ret' = [ret EXCEPT ![c] = "Some"]
    /\ pc' = [pc EXCEPT ![c] = "ret"]
    /\ preempted' = [preempted EXCEPT ![c] = FALSE]
    /\ history' = Append(history, [op |-> "steal", ret |-> "Some", ctx |-> c,
                                   preempted |-> FALSE])
    /\ UNCHANGED <<primask, stack, notTake>>

TakeNext ==
    \/ \E c \in Ctx : irq_fire(c)
    \/ \E c \in Ctx : irq_return(c)
    \/ \E c \in Ctx : take_call(c)
    \/ \E c \in Ctx : take_enter(c)
    \/ \E c \in Ctx : take_check(c)
    \/ \E c \in Ctx : take_steal(c)
    \/ \E c \in Ctx : take_exit(c)
    \/ \E c \in Ctx : steal(c)

InitTake == TakeInit /\ RegIdle /\ RenderIdle

SpecTake == InitTake /\ [][TakeNext]_vars

(***************************************************************************)
(* Reg<U, REG> (generic.rs)                                                *)
(***************************************************************************)
RECURSIVE Pow2(_)
Pow2(n) == IF n = 0 THEN 1 ELSE 2 * Pow2(n - 1)

\* The values of the backing type U.
Values == 0..(Pow2(Width) - 1)

AllOnes == Pow2(Width) - 1

Marks == {"Readable", "Writable", "ResetValue"}

\* Closures handed to write / write_with_zero: |w| w, |w| w.bits(k), and a
\* field writer that sets bit 0 of the Writer it is given.
WClosures ==
    {[kind |-> "keep", k |-> 0], [kind |-> "set_bit0", k |-> 0]}
      \cup {[kind |-> "bits", k |-> v] : v \in {0, AllOnes}}

\* Closures handed to modify: the above, and |r, w| w.bits(r.bits() + 1).
RWClosures == WClosures \cup {[kind |-> "inc_r", k |-> 0]}

\* W::bits(x) overwrites the Writer's bits; the closure returns the Writer.
ApplyRW(f, r, w) ==
    CASE f.kind = "keep"     -> w
      [] f.kind = "bits"     -> f.k
      [] f.kind = "set_bit0" -> IF w % 2 = 0 THEN w + 1 ELSE w
      [] f.kind = "inc_r"    -> (r + 1) % Pow2(Width)

ApplyW(f, w) == ApplyRW(f, 0, w)

\* where Self: Readable, U: Copy
CanRead == "Readable" \in marks

\* (Faulty variant: the ResetValue bound is missing.)
CanResetWritableOnly == "Writable" \in marks

\* where Self: ResetValue<Type=U> + Writable, U: Copy
CanReset == {"ResetValue", "Writable"} \subseteq marks

\* where Self: ResetValue<Type=U> + Writable, U: Copy
CanWrite == {"ResetValue", "Writable"} \subseteq marks

\* where Self: Writable, U: Copy + Default
CanWriteWithZero == "Writable" \in marks

\* where Self: Readable + Writable, U: Copy
CanModify == {"Readable", "Writable"} \subseteq marks

\* A register of any capability set, holding any content.
RegInit ==
    /\ marks \in SUBSET Marks
    /\ RESET_VALUE \in (IF "ResetValue" \in marks THEN Values ELSE {0})
    /\ register \in Values
    /\ rpc = "idle"
    /\ bits = 0
    /\ closure = [kind |-> "keep", k |-> 0]
    /\ lastOp = "none"
    /\ trace = <<>>
    /\ pre = 0
    /\ rdSeed = 0
    /\ wrSeed = 0
    /\ stored = 0
    /\ irqBetween = FALSE
    /\ irqVal = 0

\* R {bits: self.register.get()}
read ==
    /\ rpc = "idle"
    /\ CanRead
    /\ lastOp' = "read"
    /\ closure' = [kind |-> "keep", k |-> 0]
    /\ pre' = register
    /\ trace' = <<"load">>
    /\ rdSeed' = register
    /\ wrSeed' = 0
    /\ stored' = 0
    /\ irqBetween' = FALSE
    /\ irqVal' = 0
    /\ UNCHANGED <<marks, RESET_VALUE, register, rpc, bits, notReg>>

\* self.register.set(Self::RESET_VALUE)
reset ==
    /\ rpc = "idle"
    /\ CanReset
    /\ lastOp' = "reset"
    /\ closure' = [kind |-> "keep", k |-> 0]
    /\ pre' = register
    /\ register' = RESET_VALUE
    /\ stored' = RESET_VALUE
    /\ trace' = <<"store">>
    /\ rdSeed' = 0
    /\ wrSeed' = 0
    /\ irqBetween' = FALSE
    /\ irqVal' = 0
    /\ UNCHANGED <<marks, RESET_VALUE, rpc, bits, notReg>>

\* (Faulty variant: the Writer starts from the register's content.)
WriteInitFromRegister == register

\* W {bits: Self::RESET_VALUE}
WriteInit == RESET_VALUE

\* self.register.set(f(&mut W {bits: Self::RESET_VALUE}).bits)
write(f) ==
    /\ rpc = "idle"
    /\ CanWrite
    /\ lastOp' = "write"
    /\ closure' = f
    /\ pre' = register
    /\ wrSeed' = WriteInit
    /\ register' = ApplyW(f, WriteInit)
    /\ stored' = ApplyW(f, WriteInit)
    /\ trace' = <<"store">>
    /\ rdSeed' = 0
    /\ irqBetween' = FALSE
    /\ irqVal' = 0
    /\ UNCHANGED <<marks, RESET_VALUE, rpc, bits, notReg>>

\* (Faulty variant: the Writer starts from the reset value.)
ZeroInitFromReset == RESET_VALUE

\* W {bits: U::default()}
ZeroInit == 0

\* self.register.set(f(&mut W {bits: U::default()}).bits)
write_with_zero(f) ==
    /\ rpc = "idle"
    /\ CanWriteWithZero
    /\ lastOp' = "write_with_zero"
    /\ closure' = f
    /\ pre' = register
    /\ wrSeed' = ZeroInit
    /\ register' = ApplyW(f, ZeroInit)
    /\ stored' = ApplyW(f, ZeroInit)
    /\ trace' = <<"store">>
    /\ rdSeed' = 0
    /\ irqBetween' = FALSE
    /\ irqVal' = 0
    /\ UNCHANGED <<marks, RESET_VALUE, rpc, bits, notReg>>

\* let bits = self.register.get();
modify_load(f) ==
    /\ rpc = "idle"
    /\ CanModify
    /\ lastOp' = "modify"
    /\ closure' = f
    /\ pre' = register
    /\ bits' = register
    /\ trace' = <<"load">>
    /\ rpc' = "modify"
    /\ rdSeed' = 0
    /\ wrSeed' = 0
    /\ stored' = 0
    /\ irqBetween' = FALSE
    /\ irqVal' = 0
    /\ UNCHANGED <<marks, RESET_VALUE, register, notReg>>

\* (Faulty variant: the register is read again at the store.)
LoadedBitsReloaded == register

\* The local `bits` that seeds both &R {bits} and &mut W {bits}.
LoadedBits == bits

\* &R {bits}
ModifyReaderInit == LoadedBits

\* (Faulty variant: the Writer starts from the reset value, as in write.)
ModifyWriterInitFromReset == RESET_VALUE

\* &mut W {bits}
ModifyWriterInit == LoadedBits

\* self.register.set(f(&R {bits}, &mut W {bits}).bits)
modify_store ==
    /\ rpc = "modify"
    /\ rdSeed' = ModifyReaderInit
    /\ wrSeed' = ModifyWriterInit
    /\ register' = ApplyRW(closure, ModifyReaderInit, ModifyWriterInit)
    /\ stored' = ApplyRW(closure, ModifyReaderInit, ModifyWriterInit)
    /\ trace' = Append(trace, "store")
    /\ rpc' = "idle"
    /\ UNCHANGED <<marks, RESET_VALUE, bits, closure, lastOp, pre, irqBetween,
                   irqVal, notReg>>

\* Another execution context (an interrupt handler) stores v to the register.
irq_store(v) ==
    /\ register' = v
    /\ IF rpc = "modify"
         THEN irqBetween' = TRUE /\ irqVal' = v
         ELSE UNCHANGED <<irqBetween, irqVal>>
    /\ UNCHANGED <<marks, RESET_VALUE, rpc, bits, closure, lastOp, trace, pre,
                   rdSeed, wrSeed, stored, notReg>>

RegNext ==
    \/ read
    \/ reset
    \/ \E f \in WClosures : write(f)
    \/ \E f \in WClosures : write_with_zero(f)
    \/ \E f \in RWClosures : modify_load(f)
    \/ modify_store
    \/ \E v \in Values : irq_store(v)

InitReg == RegInit /\ TakeIdle /\ RenderIdle /\ target = "None"

SpecReg == InitReg /\ [][RegNext]_vars

(***************************************************************************)
(* device::render (device.rs)                                              *)
(***************************************************************************)
\* Peripheral names as the SVD document spells them.
Names == {"nvic", "fpu", "Uart"}

\* A peripheral: its name; `registers`, an Option<Vec<..>> that is None,
\* Some of no register, or Some of registers; whether `derived_from` is set.
PeripheralSet ==
    [name : Names, registers : {"None", "Some_empty", "Some"}, derived_from : BOOLEAN]

\* p.registers.as_ref().map(|v| &v[..]).unwrap_or(&[]).is_empty()
registers_is_empty(p) == p.registers # "Some"

RECURSIVE SeqsUpTo(_, _)
SeqsUpTo(S, n) ==
    IF n = 0 THEN {<<>>}
    ELSE LET shorter == SeqsUpTo(S, n - 1)
         IN  shorter \cup {Append(q, x) : q \in {r \in shorter : Len(r) = n - 1}, x \in S}

\* d.cpu: absent, or present with or without an FPU.
Devices == [cpu : {"none", "fpu", "nofpu"}, peripherals : SeqsUpTo(PeripheralSet, MaxPeriph)]

\* str::to_uppercase
ToUppercase(n) ==
    CASE n = "nvic" -> "NVIC"
      [] n = "fpu"  -> "FPU"
      [] n = "Uart" -> "UART"

\* util::ToSanitizedUpperCase
ToSanitizedUpperCase(n) ==
    CASE n = "nvic" -> "NVIC"
      [] n = "fpu"  -> "FPU"
      [] n = "Uart" -> "UART"

\* util::ToSanitizedSnakeCase
ToSanitizedSnakeCase(n) ==
    CASE n = "nvic" -> "nvic"
      [] n = "fpu"  -> "fpu"
      [] n = "Uart" -> "uart"

\* let mut fpu_present = true; ... fpu_present = cpu.fpu_present;
fpu_present(dev) == dev.cpu # "nofpu"

\* let core_peripherals: &[_] = if fpu_present { ... } else { ... };
core_peripherals(fpu) ==
    IF fpu
      THEN {"CBP", "CPUID", "DCB", "DWT", "FPB", "FPU", "ITM", "MPU", "NVIC", "SCB",
            "SYST", "TPIU"}
      ELSE {"CBP", "CPUID", "DCB", "DWT", "FPB", "ITM", "MPU", "NVIC", "SCB", "SYST",
            "TPIU"}

\* target == Target::CortexM && core_peripherals.contains(&&*p.name.to_uppercase())
IsCorePeripheral(p) ==
    /\ target = "CortexM"
    /\ ToUppercase(p.name) \in core_peripherals(fpu_present(d))

\* (Faulty variant: the derived_from test is missing.)
NoRegisterBlockAliasToo(p) == registers_is_empty(p)

\* p.registers...is_empty() && p.derived_from.is_none()
NoRegisterBlock(p) == registers_is_empty(p) /\ ~p.derived_from

\* let gate = if conditional { Some(quote!(#[cfg(feature = #snake_name)])) } else { None };
gate(snake_name) == IF conditional THEN snake_name ELSE "none"

\* The crate attributes and extern crates of the target (lines 42-106).
Preamble ==
    (IF target = "Msp430" THEN <<"feature_abi_msp430_interrupt">> ELSE <<>>)
    \o (IF target \notin {"None", "CortexM", "RISCV"}
          THEN <<"cfg_attr_rt_features">> ELSE <<>>)
    \o <<"crate_attrs">>
    \o (CASE target = "CortexM" -> <<"extern_cortex_m">>
          [] target = "Msp430"  -> <<"extern_msp430">>
          [] target = "RISCV"   -> <<"extern_riscv">>
          [] OTHER              -> <<>>)
    \o <<IF conditional THEN "imports_allow_unused" ELSE "imports">>
    \o (IF d.cpu # "none" THEN <<"NVIC_PRIO_BITS">> ELSE <<>>)

RenderInit ==
    /\ target \in Targets
    /\ d \in Devices
    /\ generic_mod \in BOOLEAN
    /\ conditional \in BOOLEAN
    /\ device_x = <<>>
    /\ step = "start"
    /\ idx = 1
    /\ tokens = <<>>
    /\ features = <<>>
    /\ fields = <<>>
    /\ exprs = <<>>
    /\ generic_rs = FALSE
    /\ result = "none"

\* return Err(..) by `?`: the local output, fields and exprs are dropped.
Abort ==
    /\ result' = "Err"
    /\ step' = "done"
    /\ tokens' = <<>>
    /\ features' = <<>>
    /\ fields' = <<>>
    /\ exprs' = <<>>

\* Lines 28-120: output is created and the preamble pushed.
render_preamble ==
    /\ step = "start"
    /\ tokens' = Preamble
    /\ step' = "interrupts"
    /\ UNCHANGED <<target, d, generic_mod, conditional, device_x, idx, features,
                   fields, exprs, generic_rs, result, notRender>>

\* The PROVIDE(<name> = DefaultHandler) lines interrupt::render writes for n
\* interrupts.
InterruptFragment(n) == [i \in 1..n |-> "PROVIDE"]

\* interrupt::render(target, &d.peripherals, device_x)? succeeds: it returns
\* the interrupt table and has appended n PROVIDE lines to device_x.
render_interrupts(n) ==
    /\ step = "interrupts"
    /\ n <= Len(d.peripherals)
    /\ tokens' = Append(tokens, "interrupts")
    /\ device_x' = device_x \o InterruptFragment(n)
    /\ step' = "core"
    /\ UNCHANGED <<target, d, generic_mod, conditional, idx, features, fields,
                   exprs, generic_rs, result, notRender>>

\* interrupt::render(..)? fails.
render_interrupts_err ==
    /\ step = "interrupts"
    /\ Abort
    /\ UNCHANGED <<target, d, generic_mod, conditional, device_x, idx, generic_rs,
                   notRender>>

\* Lines 137-161: the Cortex-M core peripherals are re-exported.
render_core ==
    /\ step = "core"
    /\ tokens' = tokens \o
          (IF target = "CortexM"
             THEN <<"core_peripherals",
                    IF fpu_present(d) THEN "core_with_FPU" ELSE "core_without_FPU">>
             ELSE <<>>)
    /\ step' = "generic"
    /\ UNCHANGED <<target, d, generic_mod, conditional, device_x, idx, features,
                   fields, exprs, generic_rs, result, notRender>>

\* Lines 163-177: generic.rs is written to a file, or inlined as mod generic.
render_generic ==
    /\ step = "generic"
    /\ IF generic_mod
         THEN generic_rs' = TRUE /\ tokens' = tokens
         ELSE generic_rs' = generic_rs /\ tokens' = Append(tokens, "mod_generic")
    /\ step' = "loop"
    /\ UNCHANGED <<target, d, generic_mod, conditional, device_x, idx, features,
                   fields, exprs, result, notRender>>

\* for p in &d.peripherals: a core peripheral is skipped.
render_peripheral_core ==
    /\ step = "loop"
    /\ idx <= Len(d.peripherals)
    /\ IsCorePeripheral(d.peripherals[idx])
    /\ idx' = idx + 1
    /\ UNCHANGED <<target, d, generic_mod, conditional, device_x, step, tokens,
                   features, fields, exprs, generic_rs, result, notRender>>

\* peripheral::render(p, ..)? fails.
render_peripheral_err ==
    /\ step = "loop"
    /\ idx <= Len(d.peripherals)
    /\ ~IsCorePeripheral(d.peripherals[idx])
    /\ Abort
    /\ UNCHANGED <<target, d, generic_mod, conditional, device_x, idx, generic_rs,
                   notRender>>

\* peripheral::render(p, &d.peripherals, &d.defaults, nightly, conditional)?
\* succeeds (nightly and d.defaults are read by it alone); lines 185-220.
render_peripheral ==
    /\ step = "loop"
    /\ idx <= Len(d.peripherals)
    /\ LET p == d.peripherals[idx]
           upper_name == ToSanitizedUpperCase(p.name)
           snake_name == ToSanitizedSnakeCase(p.name)
       IN  /\ ~IsCorePeripheral(p)
           /\ tokens' = Append(tokens, "peripheral")
           /\ IF NoRegisterBlock(p)
                THEN UNCHANGED <<features, fields, exprs>>
                ELSE /\ features' = Append(features, snake_name)
                     /\ fields' = Append(fields, [doc |-> upper_name,
                                                  gate |-> gate(snake_name),
                                                  id |-> upper_name])
                     /\ exprs' = Append(exprs, [gate |-> gate(snake_name),
                                                id |-> upper_name])
    /\ idx' = idx + 1
    /\ UNCHANGED <<target, d, generic_mod, conditional, device_x, step, generic_rs,
                   result, notRender>>

\* Lines 223-273: take (where the target has a critical section), the flag,
\* the Peripherals struct and steal are pushed; Ok(output).
render_finish ==
    /\ step = "loop"
    /\ idx > Len(d.peripherals)
    /\ tokens' = tokens \o
          (IF krate(target) # "none" THEN <<"take">> ELSE <<>>)
          \o <<"DEVICE_PERIPHERALS", "Peripherals", "steal">>
    /\ result' = "Ok"
    /\ step' = "done"
    /\ UNCHANGED <<target, d, generic_mod, conditional, device_x, idx, features,
                   fields, exprs, generic_rs, notRender>>

RenderNext ==
    \/ render_preamble
    \/ \E n \in 0..1 : render_interrupts(n)
    \/ render_interrupts_err
    \/ render_core
    \/ render_generic
    \/ render_peripheral_core
    \/ render_peripheral_err
    \/ render_peripheral
    \/ render_finish

InitRender == RenderInit /\ TakeIdle /\ RegIdle

SpecRender == InitRender /\ [][RenderNext]_vars

(***************************************************************************)
(* Claims about take / steal                                               *)
(***************************************************************************)
Calls == DOMAIN history

IsTake(i) == history[i].op = "take"

IsSteal(i) == history[i].op = "steal"

\* C1: from DEVICE_PERIPHERALS = false, in every sequence of calls: a take
\* that starts the sequence returns a value; of two takes the later returns
\* the empty option; a steal returns a value also after a take; a take after
\* a steal returns the empty option. So at most one take returns a value,
\* and that take precedes every steal.
C1_TakeOnce ==
    /\ \A i \in Calls : (i = 1 /\ IsTake(i)) => history[i].ret = "Some"
    /\ \A i, j \in Calls :
          (i < j /\ IsTake(i) /\ IsTake(j)) => history[j].ret = "None"
    /\ \A i \in Calls : IsSteal(i) => history[i].ret = "Some"
    /\ \A i, j \in Calls :
          (i < j /\ IsSteal(i) /\ IsTake(j)) => history[j].ret = "None"
    /\ Cardinality({i \in Calls : IsTake(i) /\ history[i].ret = "Some"}) <= 1
    /\ \A i, j \in Calls :
          (IsTake(i) /\ history[i].ret = "Some" /\ IsSteal(j)) => i < j

\* Main calls take, steal, take without being interrupted: Some, Some, None.
C1_Witness ==
    /\ Len(history) = 3
    /\ \A i \in Calls : history[i].ctx = 0 /\ ~history[i].preempted
    /\ IsTake(1) /\ history[1].ret = "Some"
    /\ IsSteal(2) /\ history[2].ret = "Some"
    /\ IsTake(3) /\ history[3].ret = "None"

InCriticalSection(c) == pc[c] \in {"cs", "cs_steal", "cs_exit"}

\* C2: where take is emitted, the read of the flag and the write that sets
\* it lie in one critical section with interrupts masked: a context between
\* them is the running one and cannot be preempted. So two takes, one
\* preempting the other, never both return a value, and when they are the
\* only two calls exactly one of them returns the empty option.
C2_TakeRace ==
    /\ \A c \in Ctx : InCriticalSection(c) => (primask /\ Running = c)
    /\ krate(target) = "none" => \A i \in Calls : ~IsTake(i)
    /\ \A i, j \in Calls :
          (i # j /\ IsTake(i) /\ IsTake(j) /\ history[i].ctx # history[j].ctx)
             => ~(history[i].ret = "Some" /\ history[j].ret = "Some")
    /\ (Len(history) >= 2 /\ IsTake(1) /\ IsTake(2))
          => Cardinality({i \in 1..2 : history[i].ret = "None"}) = 1

\* Main's take was preempted by a handler whose take won; main's came back empty.
C2_Witness ==
    /\ Len(history) = 2
    /\ IsTake(1) /\ history[1].ctx # 0 /\ history[1].ret = "Some"
    /\ IsTake(2) /\ history[2].ctx = 0 /\ history[2].ret = "None"
    /\ history[2].preempted

(***************************************************************************)
(* Claims about Reg<U, REG>                                                *)
(***************************************************************************)
Keep == [kind |-> "keep", k |-> 0]

C4_Write ==
    /\ lastOp = "write" =>
          /\ trace = <<"store">>
          /\ wrSeed = RESET_VALUE
          /\ stored = ApplyW(closure, RESET_VALUE)
          /\ closure = Keep => stored = RESET_VALUE
    /\ lastOp = "reset" => (trace = <<"store">> /\ stored = RESET_VALUE)

\* write(|w| w) on a register that held something else than its reset value.
C4_Witness ==
    /\ lastOp = "write"
    /\ closure = Keep
    /\ pre # RESET_VALUE
    /\ RESET_VALUE # 0
    /\ register = RESET_VALUE

\* C5: modify(f) performs exactly one load followed by exactly one store;
\* the Reader and the Writer handed to f both hold the loaded value; the
\* stored value is the bits of the Writer f returns; when f leaves the Writer
\* untouched the value stored is the content found before.
C5_Modify ==
    /\ rpc = "modify" => (lastOp = "modify" /\ trace = <<"load">> /\ bits = pre)
    /\ (lastOp = "modify" /\ rpc = "idle") =>
          /\ trace = <<"load", "store">>
          /\ rdSeed = pre
          /\ wrSeed = pre
          /\ stored = ApplyRW(closure, pre, pre)
          /\ closure = Keep => stored = pre

\* modify(|_, w| w) ran undisturbed on a content that is neither zero nor the
\* reset value, and the register holds that content again.
C5_Witness ==
    /\ lastOp = "modify"
    /\ rpc = "idle"
    /\ closure = Keep
    /\ ~irqBetween
    /\ pre # 0
    /\ pre # RESET_VALUE
    /\ register = pre

\* C6: write_with_zero(f) performs no load and exactly one store; the stored
\* value is the bits of the Writer f returns when handed an all-zero Writer,
\* whatever the reset value and the content of the register.
C6_WriteWithZero ==
    lastOp = "write_with_zero" =>
        /\ trace = <<"store">>
        /\ wrSeed = 0
        /\ stored = ApplyW(closure, 0)
        /\ closure = Keep => stored = 0

\* write_with_zero(|w| w) on a register whose reset value is not zero.
C6_Witness ==
    /\ lastOp = "write_with_zero"
    /\ closure = Keep
    /\ "ResetValue" \in marks
    /\ RESET_VALUE # 0
    /\ pre # 0
    /\ register = 0

\* C10: read, write and reset are one volatile access each, with no point
\* inside them where another context can store; modify is a load and a later
\* store, and when an interrupt stores in between, what modify stores is
\* computed from the stale loaded value, not from what the interrupt stored.
C10_ModifyNotAtomic ==
    /\ rpc # "idle" => lastOp = "modify"
    /\ lastOp \in {"read", "write", "reset"} => (Len(trace) = 1 /\ ~irqBetween)
    /\ (lastOp = "modify" /\ rpc = "idle" /\ irqBetween) =>
          /\ trace = <<"load", "store">>
          /\ stored = ApplyRW(closure, pre, pre)

\* The lost update: the interrupt stored irqVal between modify's load and
\* store, and the register holds what modify computed from the stale value.
C10_Witness ==
    /\ lastOp = "modify"
    /\ rpc = "idle"
    /\ irqBetween
    /\ irqVal # pre
    /\ register = ApplyRW(closure, pre, pre)
    /\ register # ApplyRW(closure, irqVal, irqVal)
    /\ register # irqVal

(***************************************************************************)
(* Claims about device::render                                             *)
(***************************************************************************)
\* C7: when render returns an error, no output exists: no token stream and
\* no feature list is returned, generic.rs has not been written, and the
\* caller's linker-fragment string is as it was passed in (empty).
C7_NoPartialOutput ==
    result = "Err" =>
        /\ tokens = <<>>
        /\ features = <<>>
        /\ ~generic_rs
        /\ device_x = <<>>

\* A core peripheral the Cortex-M crate re-exports.
ReExported(p) ==
    /\ target = "CortexM"
    /\ \/ ToUppercase(p.name) \in {"NVIC"}
       \/ ToUppercase(p.name) = "FPU" /\ d.cpu # "nofpu"

NotReExported(p) == ~ReExported(p)

\* A peripheral with a register block of its own, or an alias of another.
HasBlockOrAlias(p) == NotReExported(p) /\ (p.registers = "Some" \/ p.derived_from)

UpperNames(ps) == [i \in 1..Len(ps) |-> ToSanitizedUpperCase(ps[i].name)]

SnakeNames(ps) == [i \in 1..Len(ps) |-> ToSanitizedSnakeCase(ps[i].name)]

Ids(fs) == [i \in 1..Len(fs) |-> fs[i].id]

\* C8: the feature list render returns holds, when conditional, the
\* snake-case name of each peripheral that receives a field, in document
\* order, and is empty when not conditional.
C8_Features ==
    result = "Ok" =>
        IF conditional
          THEN features = SnakeNames(SelectSeq(d.peripherals, HasBlockOrAlias))
          ELSE features = <<>>

\* The original statement of C9: every peripheral that is not a re-exported
\* core peripheral has exactly one field in Peripherals, in document order,
\* and steal initialises the same fields.
C9_Original ==
    result = "Ok" =>
        /\ Ids(fields) = UpperNames(SelectSeq(d.peripherals, NotReExported))
        /\ Ids(exprs) = Ids(fields)

\* C9 (amended): Peripherals has exactly one field, in document order, for
\* every peripheral that is not a re-exported core peripheral and that has a
\* non-empty register block or a derivedFrom (pure aliases included); a
\* peripheral with neither has no field; steal initialises exactly the same
\* fields under the same gates.
C9_Fields ==
    result = "Ok" =>
        /\ Ids(fields) = UpperNames(SelectSeq(d.peripherals, HasBlockOrAlias))
        /\ Ids(exprs) = Ids(fields)
        /\ \A i \in DOMAIN fields : exprs[i].gate = fields[i].gate

\* A device of a pure alias and a peripheral with neither registers nor
\* derivedFrom: the alias alone has a field.
C9_Witness ==
    /\ result = "Ok"
    /\ Len(d.peripherals) = 2
    /\ d.peripherals[1].registers = "None" /\ d.peripherals[1].derived_from
    /\ d.peripherals[2].registers = "Some_empty" /\ ~d.peripherals[2].derived_from
    /\ \A i \in 1..2 : NotReExported(d.peripherals[i])
    /\ Ids(fields) = <<ToSanitizedUpperCase(d.peripherals[1].name)>>
    /\ Ids(exprs) = Ids(fields)

====
